---- MODULE Spec2Model ----
(***************************************************************************)
(* Model of dbmp's Parallel helper (src/dbmp/utils.py): a bounded pool of  *)
(* worker threads (_wrapped) draining a Queue of (func, args, kwargs)      *)
(* triples, and the supervisor (run_threads) that fills the queue, starts  *)
(* the threads, polls unfinished_tasks and the exceptions queue, and       *)
(* re-raises what it finds.  Python 2 semantics (xrange, unicode).         *)
(***************************************************************************)
EXTENDS Integers, Sequences, FiniteSets, TLC

\* ---------------------------------------------------------------- bounds
\* Size of one invocation: entries put on the queue plus threads started.
MaxLoad == 4

\* Thread identities the interpreter can hand out.
Workers == 1..(MaxLoad + 1)
\* Identities of the triples zip_longest can yield (positions 1, 2, ...).
TaskIds == 1..MaxLoad

\* ---------------------------------------------------------------- inputs
\* What a callable of funcs does when called: return, raise an ordinary
\* Exception("boom"), or raise queue.Empty.
FuncKinds == {"ok", "fail", "fail_empty"}
\* A callable can also raise what is no Exception at all: SystemExit from
\* sys.exit(), KeyboardInterrupt, GeneratorExit.
CallKinds == FuncKinds \cup {"fail_exit"}
\* An entry of args_list: a sequence of arguments, or a bare text value.
ArgKinds == {"seq", "str"}
\* An entry of kwargs_list: a mapping.
KwargKinds == {"map"}
\* fillvalue={} of zip_longest.
Fill == "fill"

SeqsUpTo(S, n) == UNION {[1..k -> S] : k \in 0..n}

\* ---------------------------------------------------------------- errors
None == [kind |-> "None", msg |-> "", task |-> 0]
StrValueError ==
    [kind |-> "ValueError",
     msg |-> "args_list must be list of lists not list of strings",
     task |-> 0]
LenValueError ==
    [kind |-> "ValueError",
     msg |-> "List of functions passed into a Parallel object must be longer",
     task |-> 0]

NoTask == [id |-> 0, func |-> Fill, args |-> Fill, kwargs |-> Fill]

\* ---------------------------------------------------------------- locker
\* Threads that call functions wrapped by locker.
MaxCallers == 2
Callers == 1..MaxCallers
\* func.__name__ of the wrapped functions.
Names == {"f", "g"}
NoName == ""
\* A threading.Lock() object, told apart by who created it for which name.
NoLock == [name |-> NoName, by |-> 0]
NewLock(n, t) == [name |-> n, by |-> t]

VARIABLES
    funcs, args_list, kwargs_list, max_workers,   \* Parallel.__init__ inputs
    queue, unfinished_tasks,                      \* self.queue
    exceptions,                                   \* self.exceptions
    keep_running,                                 \* self.keep_running
    threads,                                      \* self.threads
    wpc, wtask,                                   \* each _wrapped thread
    spc, i, exc, pending, j, outcome,             \* run_threads
    deq, calls, firstFailure, timedOut, failed,   \* observation only
    done,                                         \* task_done calls per entry
    recorded, taken,                              \* failures put and got, by entry
    runs,                                         \* calls of run_threads so far
    LOCKS,                                        \* module-level LOCKS = {}
    lpc, lname, llock, held                       \* threads inside locker's _wrapper

inputs == <<funcs, args_list, kwargs_list, max_workers>>
shared == <<queue, unfinished_tasks, exceptions, keep_running, threads>>
wvars == <<wpc, wtask>>
svars == <<spc, i, exc, pending, j, outcome>>
hist == <<deq, calls, firstFailure, timedOut, failed, done, recorded, taken>>
\* The lock registry and the threads calling functions wrapped by locker.
lvars == <<LOCKS, lpc, lname, llock, held>>
\* What no step of run_threads or of _wrapped touches.
outside == <<runs, lvars>>
\* Everything a Parallel object and its threads own.
pvars == <<inputs, shared, wvars, svars, hist, runs>>
vars == <<inputs, shared, wvars, svars, hist, outside>>

\* ------------------------------------------------------- pure operators
Max(a, b) == IF a >= b THEN a ELSE b

\* Number of triples zip_longest yields.
ZipLen == Max(Len(funcs), Max(Len(args_list), Len(kwargs_list)))

\* Faulty variant: the lists are paired one position off.
AtShifted(s, k) == IF k < Len(s) THEN s[k + 1] ELSE Fill

\* Element k of a list zipped by zip_longest: the fill value past its end.
At(s, k) == IF k <= Len(s) THEN s[k] ELSE Fill

\* What *args and **kwargs hand to the callable: the fill value {} unpacks
\* to no argument at all.
Unpacked(a) == IF a = Fill THEN "empty" ELSE a

\* The k-th triple of zip_longest(funcs, args_list, kwargs_list, fillvalue={}).
ZipLongest(k) ==
    [id |-> k, func |-> At(funcs, k), args |-> At(args_list, k),
     kwargs |-> At(kwargs_list, k)]

\* Faulty variant: the text check is missing.
IsTextUnchecked(a) == FALSE

\* isinstance(args, str) or isinstance(args, unicode)
IsText(a) == a = "str"

\* len(self.funcs) < len(self.args_list) or len(self.funcs) < len(self.kwargs_list)
LengthMismatch ==
    Len(funcs) < Len(args_list) \/ Len(funcs) < Len(kwargs_list)

\* func(*args, **kwargs): None when it returns, else what it raises.
\* Calling the fill value {} raises TypeError.
CallResult(d) ==
    CASE d.func = "ok" -> None
      [] d.func = "fail" ->
            [kind |-> "Exception", msg |-> "boom", task |-> d.id]
      [] d.func = "fail_empty" ->
            [kind |-> "Empty", msg |-> "", task |-> d.id]
      [] d.func = "fail_exit" ->
            [kind |-> "SystemExit", msg |-> "", task |-> d.id]
      [] OTHER ->
            [kind |-> "TypeError", msg |-> "'dict' object is not callable",
             task |-> d.id]

\* except Exception: catches every exception class but the ones deriving
\* from BaseException only.
Caught(e) == e.kind # "SystemExit"

\* Faulty variant: the entry is put at the head, making the queue a stack.
QueuePutFront(q, d) == <<d>> \o q

\* queue.Queue.put(item): the item goes to the tail.
QueuePut(q, d) == Append(q, d)

\* Faulty variant: the head is read but left in the queue.
QueueAfterPeek(q) == q

\* queue.Queue.get(block=False) on a non-empty queue: what is left.
QueueAfterGet(q) == Tail(q)

\* Faulty variant: one thread too many.
SpawnOneMore == Len(threads) < max_workers + 1

\* for _ in xrange(self.max_workers): another thread is to be started.
SpawnMore == Len(threads) < max_workers

\* Faulty variant: polls the queue's size instead of its unfinished count.
PollWhileQueued == Len(queue) # 0

\* Faulty variant: the supervisor does not wait at all.
PollNever == FALSE

\* while self.queue.unfinished_tasks:
PollAgain == unfinished_tasks # 0

\* except queue.Empty: pass  around raise_(*exc)
Swallowed(e) == e.kind = "Empty"

\* ------------------------------------------------------------------ Init
\* The object Parallel.__init__ leaves behind, no thread started, and the
\* lock registry of a freshly imported module.
Constructed ==
    /\ args_list \in SeqsUpTo(ArgKinds, MaxLoad - 1)
    /\ kwargs_list \in SeqsUpTo(KwargKinds, MaxLoad - 1)
    /\ max_workers \in 1..MaxLoad
    /\ ZipLen + max_workers <= MaxLoad
    /\ queue = <<>>
    /\ unfinished_tasks = 0
    /\ exceptions = <<>>
    /\ keep_running = TRUE
    /\ threads = <<>>
    /\ wpc = [w \in Workers |-> "unstarted"]
    /\ wtask = [w \in Workers |-> NoTask]
    /\ spc = "enqueue"
    /\ i = 1
    /\ exc = None
    /\ pending = None
    /\ j = 1
    /\ outcome = None
    /\ deq = [t \in TaskIds |-> 0]
    /\ calls = [t \in TaskIds |-> 0]
    /\ firstFailure = None
    /\ timedOut = FALSE
    /\ failed = {}
    /\ done = [t \in TaskIds |-> 0]
    /\ recorded = {}
    /\ taken = {}
    /\ runs = 1
    /\ LOCKS = [n \in Names |-> NoLock]
    /\ lpc = [t \in Callers |-> "idle"]
    /\ lname = [t \in Callers |-> NoName]
    /\ llock = [t \in Callers |-> NoLock]
    /\ held = {}

\* Callables that return or raise an Exception.
Init ==
    /\ funcs \in SeqsUpTo(FuncKinds, MaxLoad - 1)
    /\ Constructed

\* Callables of every kind, those raising past except Exception included.
ExitInit ==
    /\ funcs \in SeqsUpTo(CallKinds, MaxLoad - 1)
    /\ Constructed

\* ------------------------------------------------------ _wrapped (worker)
\* Faulty variant: the loop test ignores the flag.
WCheckAlways(w) ==
    /\ wpc[w] = "check"
    /\ wpc' = [wpc EXCEPT ![w] = "get"]
    /\ UNCHANGED <<inputs, outside, shared, wtask, svars, hist>>

\* while self.keep_running:
WCheck(w) ==
    /\ wpc[w] = "check"
    /\ wpc' = [wpc EXCEPT ![w] = IF keep_running THEN "get" ELSE "exited"]
    /\ UNCHANGED <<inputs, outside, shared, wtask, svars, hist>>

\* func, args, kwargs = self.queue.get(block=False) / except queue.Empty: break
WGet(w) ==
    /\ wpc[w] = "get"
    /\ IF queue = <<>>
       THEN /\ wpc' = [wpc EXCEPT ![w] = "exited"]
            /\ UNCHANGED <<queue, wtask, deq>>
       ELSE /\ wtask' = [wtask EXCEPT ![w] = Head(queue)]
            /\ queue' = QueueAfterGet(queue)
            /\ deq' = [deq EXCEPT ![Head(queue).id] = @ + 1]
            /\ wpc' = [wpc EXCEPT ![w] = "call"]
    /\ UNCHANGED <<inputs, outside, unfinished_tasks, exceptions, keep_running,
                   threads, svars, calls, firstFailure, timedOut, failed,
                   done, recorded, taken>>

\* func(*args, **kwargs) runs to its end: returns or raises.  What except
\* Exception does not catch leaves _wrapped at once and ends the thread.
WCall(w) ==
    /\ wpc[w] = "call"
    /\ calls' = [calls EXCEPT ![wtask[w].id] = @ + 1]
    /\ wpc' = [wpc EXCEPT ![w] =
                  IF CallResult(wtask[w]) = None THEN "task_done"
                  ELSE IF Caught(CallResult(wtask[w])) THEN "stop"
                  ELSE "exited"]
    /\ failed' = IF CallResult(wtask[w]) = None THEN failed ELSE failed \cup {w}
    /\ UNCHANGED <<inputs, outside, shared, wtask, svars, deq, firstFailure,
                   timedOut, done, recorded, taken>>

\* except Exception: self.keep_running = False
WStop(w) ==
    /\ wpc[w] = "stop"
    /\ keep_running' = FALSE
    /\ wpc' = [wpc EXCEPT ![w] = "record"]
    /\ UNCHANGED <<inputs, outside, queue, unfinished_tasks, exceptions, threads,
                   wtask, svars, hist>>

\* Faulty variant: the failure is logged and never put.
WRecordDropped(w) ==
    /\ wpc[w] = "record"
    /\ wpc' = [wpc EXCEPT ![w] = "task_done"]
    /\ UNCHANGED <<inputs, outside, shared, wtask, svars, hist>>

\* self.exceptions.put(sys.exc_info())
WRecord(w) ==
    /\ wpc[w] = "record"
    /\ exceptions' = Append(exceptions, CallResult(wtask[w]))
    /\ firstFailure' =
          IF firstFailure = None THEN CallResult(wtask[w]) ELSE firstFailure
    /\ recorded' = recorded \cup {wtask[w].id}
    /\ wpc' = [wpc EXCEPT ![w] = "task_done"]
    /\ UNCHANGED <<inputs, outside, queue, unfinished_tasks, keep_running, threads,
                   wtask, svars, deq, calls, timedOut, failed, done, taken>>

\* Faulty variant: the task is marked done twice over.
WTaskDoneTwice(w) ==
    /\ wpc[w] = "task_done"
    /\ unfinished_tasks' = unfinished_tasks - 2
    /\ wtask' = [wtask EXCEPT ![w] = NoTask]
    /\ wpc' = [wpc EXCEPT ![w] = "check"]
    /\ done' = [done EXCEPT ![wtask[w].id] = @ + 1]
    /\ UNCHANGED <<inputs, outside, queue, exceptions, keep_running, threads,
                   svars, deq, calls, firstFailure, timedOut, failed, recorded,
                   taken>>

\* Faulty variant: a worker that finished a task raises the flag again.
WTaskDoneResume(w) ==
    /\ wpc[w] = "task_done"
    /\ unfinished_tasks' = unfinished_tasks - 1
    /\ wtask' = [wtask EXCEPT ![w] = NoTask]
    /\ wpc' = [wpc EXCEPT ![w] = "check"]
    /\ keep_running' = TRUE
    /\ done' = [done EXCEPT ![wtask[w].id] = @ + 1]
    /\ UNCHANGED <<inputs, outside, queue, exceptions, threads, svars, deq,
                   calls, firstFailure, timedOut, failed, recorded, taken>>

\* self.queue.task_done(), then back to the loop test.
WTaskDone(w) ==
    /\ wpc[w] = "task_done"
    /\ unfinished_tasks' = unfinished_tasks - 1
    /\ wtask' = [wtask EXCEPT ![w] = NoTask]
    /\ wpc' = [wpc EXCEPT ![w] = "check"]
    /\ done' = [done EXCEPT ![wtask[w].id] = @ + 1]
    /\ UNCHANGED <<inputs, outside, queue, exceptions, keep_running, threads,
                   svars, deq, calls, firstFailure, timedOut, failed, recorded,
                   taken>>

\* -------------------------------------------------- run_threads (supervisor)
\* for func, args, kwargs in zip_longest(...): check for text, then put.
SEnqueue ==
    /\ spc = "enqueue"
    /\ IF i > ZipLen
       THEN /\ spc' = "spawn"
            /\ UNCHANGED <<queue, unfinished_tasks, i, pending>>
       ELSE IF IsText(ZipLongest(i).args)
       THEN /\ pending' = StrValueError
            /\ spc' = "finally"
            /\ UNCHANGED <<queue, unfinished_tasks, i>>
       ELSE /\ queue' = QueuePut(queue, ZipLongest(i))
            /\ unfinished_tasks' = unfinished_tasks + 1
            /\ i' = i + 1
            /\ UNCHANGED <<spc, pending>>
    /\ UNCHANGED <<inputs, outside, exceptions, keep_running, threads, wvars,
                   exc, j, outcome, hist>>

\* for _ in xrange(self.max_workers): thread.start(); self.threads.append(thread)
SSpawn ==
    /\ spc = "spawn"
    /\ IF SpawnMore
       THEN /\ wpc' = [wpc EXCEPT ![Len(threads) + 1] = "check"]
            /\ threads' = Append(threads, Len(threads) + 1)
            /\ UNCHANGED spc
       ELSE /\ spc' = "lencheck"
            /\ UNCHANGED <<wpc, threads>>
    /\ UNCHANGED <<inputs, outside, queue, unfinished_tasks, exceptions, keep_running,
                   wtask, i, exc, pending, j, outcome, hist>>

\* if len(self.funcs) < len(self.args_list) or ...: raise ValueError(...)
SLenCheck ==
    /\ spc = "lencheck"
    /\ IF LengthMismatch
       THEN /\ pending' = LenValueError
            /\ spc' = "finally"
       ELSE /\ spc' = "poll"
            /\ UNCHANGED pending
    /\ UNCHANGED <<inputs, outside, shared, wvars, i, exc, j, outcome, hist>>

\* while self.queue.unfinished_tasks:
SPoll ==
    /\ spc = "poll"
    /\ spc' = IF PollAgain THEN "pollget" ELSE "finally"
    /\ UNCHANGED <<inputs, outside, shared, wvars, i, exc, pending, j, outcome, hist>>

\* exc = self.exceptions.get(block=False) / except queue.Empty: pass; sleep(0.2)
SPollGet ==
    /\ spc = "pollget"
    /\ IF exceptions = <<>>
       THEN /\ spc' = "poll"
            /\ UNCHANGED <<exceptions, exc, taken>>
       ELSE /\ exc' = Head(exceptions)
            /\ exceptions' = Tail(exceptions)
            /\ taken' = taken \cup {Head(exceptions).task}
            /\ spc' = "pollstop"
    /\ UNCHANGED <<inputs, outside, queue, unfinished_tasks, keep_running, threads,
                   wvars, i, pending, j, outcome, deq, calls, firstFailure,
                   timedOut, failed, done, recorded>>

\* self.keep_running = False; raise_(*exc)   (inside try/except queue.Empty)
SPollStop ==
    /\ spc = "pollstop"
    /\ keep_running' = FALSE
    /\ IF Swallowed(exc)
       THEN /\ spc' = "poll"
            /\ UNCHANGED pending
       ELSE /\ pending' = exc
            /\ spc' = "finally"
    /\ UNCHANGED <<inputs, outside, queue, unfinished_tasks, exceptions, threads,
                   wvars, i, exc, j, outcome, hist>>

\* finally: exc = self.exceptions.get(block=False) / except queue.Empty: pass
\* With nothing to get, run_threads ends: it returns, or the exception in
\* flight propagates; its locals go away with its frame.
SFinally ==
    /\ spc = "finally"
    /\ IF exceptions = <<>>
       THEN /\ spc' = "done"
            /\ outcome' = pending
            /\ i' = 1 /\ exc' = None /\ pending' = None /\ j' = 1
            /\ UNCHANGED <<exceptions, taken>>
       ELSE /\ exc' = Head(exceptions)
            /\ exceptions' = Tail(exceptions)
            /\ taken' = taken \cup {Head(exceptions).task}
            /\ spc' = "finstop"
            /\ UNCHANGED <<i, pending, j, outcome>>
    /\ UNCHANGED <<inputs, outside, queue, unfinished_tasks, keep_running, threads,
                   wvars, deq, calls, firstFailure, timedOut, failed, done,
                   recorded>>

\* self.keep_running = False   (in the finally block)
SFinStop ==
    /\ spc = "finstop"
    /\ keep_running' = FALSE
    /\ j' = 1
    /\ spc' = "join"
    /\ UNCHANGED <<inputs, outside, queue, unfinished_tasks, exceptions, threads,
                   wvars, i, exc, pending, outcome, hist>>

\* for thread in self.threads: thread.join(self.timeout)  -- the thread ended
SJoin ==
    /\ spc = "join"
    /\ j <= Len(threads)
    /\ wpc[threads[j]] = "exited"
    /\ j' = j + 1
    /\ UNCHANGED <<inputs, outside, shared, wvars, spc, i, exc, pending, outcome, hist>>

\* thread.join(self.timeout)  -- the timeout elapsed first
SJoinTimeout ==
    /\ spc = "join"
    /\ j <= Len(threads)
    /\ wpc[threads[j]] # "exited"
    /\ j' = j + 1
    /\ timedOut' = TRUE
    /\ UNCHANGED <<inputs, outside, shared, wvars, spc, i, exc, pending,
                   outcome, deq, calls, firstFailure, failed, done, recorded,
                   taken>>

\* raise_(*exc) after the joins (inside try/except queue.Empty of finally);
\* run_threads ends and its locals go away with its frame.
SReraise ==
    /\ spc = "join"
    /\ j > Len(threads)
    /\ outcome' = IF Swallowed(exc) THEN pending ELSE exc
    /\ spc' = "done"
    /\ i' = 1 /\ exc' = None /\ pending' = None /\ j' = 1
    /\ UNCHANGED <<inputs, outside, shared, wvars, hist>>

\* One step of thread w running _wrapped.
WorkerStep(w) ==
    WCheck(w) \/ WGet(w) \/ WCall(w) \/ WStop(w) \/ WRecord(w) \/ WTaskDone(w)

Worker == \E w \in Workers : WorkerStep(w)

Supervisor ==
    \/ SEnqueue \/ SSpawn \/ SLenCheck \/ SPoll \/ SPollGet \/ SPollStop
    \/ SFinally \/ SFinStop \/ SJoin \/ SJoinTimeout \/ SReraise

Next == Worker \/ Supervisor

Spec == Init /\ [][Next]_vars

\* The interpreter schedules every thread again and again, every task
\* callable comes to an end, and a join ends by the thread's exit or by the
\* timeout: the main thread and each worker take their next step.
Fairness ==
    /\ WF_vars(Supervisor)
    /\ \A w \in Workers : WF_vars(WorkerStep(w))

FairSpec == Spec /\ Fairness

ExitSpec == ExitInit /\ [][Next]_vars

FairExitSpec == ExitSpec /\ Fairness

\* ----------------------------------------- run_threads called once more
\* Invocations of run_threads the caller makes on one Parallel object.
MaxRuns == 2
\* Size of one object's life: entries put plus threads started, all calls.
LifeLoad == MaxLoad + MaxRuns

\* The caller calls run_threads again on the same object after the previous
\* call returned or raised.  Nothing of the object is created anew: queue,
\* exceptions, threads and keep_running are set in __init__ only.
SRerun ==
    /\ spc = "done"
    /\ runs < MaxRuns
    /\ (runs + 1) * (ZipLen + max_workers) <= LifeLoad
    /\ Len(threads) + max_workers <= Cardinality(Workers)
    /\ runs' = runs + 1
    /\ spc' = "enqueue"
    /\ outcome' = None
    /\ UNCHANGED <<inputs, shared, wvars, i, exc, pending, j, hist, lvars>>

ReuseNext == Next \/ SRerun

SpecReuse == Init /\ [][ReuseNext]_vars

\* ------------------------------------------------ locker (_wrapper)
\* A thread calls a function wrapped by locker: n = func.__name__
LCall(t, n) ==
    /\ lpc[t] = "idle"
    /\ lname' = [lname EXCEPT ![t] = n]
    /\ lpc' = [lpc EXCEPT ![t] = "test"]
    /\ UNCHANGED <<pvars, LOCKS, llock, held>>

\* if n not in LOCKS:
LTest(t) ==
    /\ lpc[t] = "test"
    /\ lpc' = [lpc EXCEPT ![t] =
                  IF LOCKS[lname[t]] = NoLock THEN "create" ELSE "with"]
    /\ UNCHANGED <<pvars, LOCKS, lname, llock, held>>

\* LOCKS[n] = threading.Lock()
LCreate(t) ==
    /\ lpc[t] = "create"
    /\ LOCKS' = [LOCKS EXCEPT ![lname[t]] = NewLock(lname[t], t)]
    /\ lpc' = [lpc EXCEPT ![t] = "with"]
    /\ UNCHANGED <<pvars, lname, llock, held>>

\* with LOCKS[n]:  -- the lookup of the lock object
LLookup(t) ==
    /\ lpc[t] = "with"
    /\ llock' = [llock EXCEPT ![t] = LOCKS[lname[t]]]
    /\ lpc' = [lpc EXCEPT ![t] = "acquire"]
    /\ UNCHANGED <<pvars, LOCKS, lname, held>>

\* with LOCKS[n]:  -- __enter__ blocks until that lock object is free
LAcquire(t) ==
    /\ lpc[t] = "acquire"
    /\ llock[t] \notin held
    /\ held' = held \cup {llock[t]}
    /\ lpc' = [lpc EXCEPT ![t] = "body"]
    /\ UNCHANGED <<pvars, LOCKS, lname, llock>>

\* return func(*args, **kwargs), and __exit__ releases the lock
LReturn(t) ==
    /\ lpc[t] = "body"
    /\ held' = held \ {llock[t]}
    /\ lpc' = [lpc EXCEPT ![t] = "idle"]
    /\ lname' = [lname EXCEPT ![t] = NoName]
    /\ llock' = [llock EXCEPT ![t] = NoLock]
    /\ UNCHANGED <<pvars, LOCKS>>

Caller(t) ==
    \/ \E n \in Names : LCall(t, n)
    \/ LTest(t) \/ LCreate(t) \/ LLookup(t) \/ LAcquire(t) \/ LReturn(t)

LockerNext == \E t \in Callers : Caller(t)

\* No Parallel object at work: only the callers of wrapped functions move.
LockerInit ==
    /\ Init
    /\ funcs = <<>> /\ args_list = <<>> /\ kwargs_list = <<>>
    /\ max_workers = 1

SpecLocker == LockerInit /\ [][LockerNext]_vars

\* ------------------------------------------------------------- type check
Errors ==
    [kind : {"None", "ValueError", "Exception", "Empty", "TypeError"},
     msg : STRING, task : 0..Cardinality(TaskIds)]

TypeOK ==
    /\ unfinished_tasks \in Int
    /\ keep_running \in BOOLEAN
    /\ wpc \in [Workers -> {"unstarted", "check", "get", "call", "stop",
                            "record", "task_done", "exited"}]
    /\ spc \in {"enqueue", "spawn", "lencheck", "poll", "pollget", "pollstop",
                "finally", "finstop", "join", "done"}
    /\ outcome \in Errors /\ pending \in Errors /\ exc \in Errors
    /\ \A k \in 1..Len(exceptions) : exceptions[k] \in Errors

\* ------------------------------------------------- vocabulary of the claims
\* Some entry of args_list is a bare text value.
HasText == \E k \in 1..Len(args_list) : args_list[k] = "str"

\* The caller respected the documented contract of Parallel.
ValidInput == ~LengthMismatch /\ ~HasText

Failing == {k \in 1..Len(funcs) : funcs[k] # "ok"}

\* run_threads is over: it returned (outcome = None) or raised outcome.
Finished == spc = "done"
Returned == Finished /\ outcome = None
Raised(e) == Finished /\ outcome = e

Started(w) == wpc[w] # "unstarted"
Alive(w) == wpc[w] \notin {"unstarted", "exited"}
Executing == {w \in Workers : wpc[w] = "call"}

\* The failure task k raises.
FailureOf(k) == CallResult(ZipLongest(k))

\* ------------------------------------------------------------------ C1
\* C1: for valid input with max_workers >= 1, if every task callable
\* returns, run_threads returns normally and unfinished_tasks is zero when
\* it does.
C1_AllSucceedReturnsDrained ==
    (Finished /\ ValidInput /\ max_workers >= 1 /\ Failing = {})
        => (outcome = None /\ unfinished_tasks = 0)

C1_Witness ==
    /\ Returned /\ ValidInput /\ Failing = {}
    /\ Len(funcs) >= 2 /\ max_workers >= 2
    /\ \A k \in 1..Len(funcs) : calls[k] = 1

\* ------------------------------------------------------------------ C2
\* C2: if exactly one task raises an error E (valid input), run_threads
\* raises E itself: never another error, never a normal return.
C2_SingleFailurePropagated ==
    (Finished /\ ValidInput /\ Cardinality(Failing) = 1)
        => \A k \in Failing : outcome = FailureOf(k)

\* ------------------------------------------------------------------ C3
\* C3: first failure wins -- whenever run_threads raises a task's failure,
\* it is the failure that was recorded first; a later one never replaces it.
\* Stated for tasks that fail with an ordinary Exception, so that what
\* refutes it is the replacement alone.
C3_FirstFailureWins ==
    (Finished /\ ValidInput /\ outcome.task # 0
        /\ \A k \in Failing : funcs[k] = "fail") => outcome = firstFailure

\* ------------------------------------------------------------------ C4
\* C4: unconditional join -- when no join timed out, no worker thread is
\* still alive at the moment run_threads returns or raises.
C4_JoinedBeforeExit ==
    (Finished /\ ~timedOut) => \A w \in Workers : ~Alive(w)

\* ------------------------------------------------------------------ C5
\* C5: a functions-to-arguments count mismatch is raised before any worker
\* is started: when the length ValueError is raised, and from then on, no
\* worker exists and no entry has been dequeued or executed.
C5_MismatchBeforeWorkers ==
    (pending = LenValueError \/ (Finished /\ LengthMismatch /\ ~HasText)) =>
        /\ \A w \in Workers : ~Started(w)
        /\ \A t \in TaskIds : deq[t] = 0 /\ calls[t] = 0

\* ------------------------------------------------------------------ C6
\* C6: with args_list or kwargs_list longer than funcs, what run_threads
\* raises is always the length ValueError, never a worker's error.
C6_MismatchRaisesLengthError ==
    (Finished /\ LengthMismatch /\ ~HasText) => outcome = LenValueError

\* ------------------------------------------------------------------ C7
\* C7: a bare text entry in args_list makes run_threads raise the
\* validation ValueError before anything runs: no worker is ever started,
\* no task is ever dequeued or called, the offending entry is never
\* enqueued, and the error raised is that ValueError.
C7_TextArgFailsFast ==
    HasText =>
        /\ \A w \in Workers : ~Started(w)
        /\ \A t \in TaskIds : deq[t] = 0 /\ calls[t] = 0
        /\ \A k \in 1..Len(queue) : queue[k].args # "str"
        /\ Finished => outcome = StrValueError
        /\ spc \in {"enqueue", "finally", "done"}

C7_Witness ==
    /\ Raised(StrValueError) /\ HasText
    /\ Len(queue) >= 1 /\ unfinished_tasks = Len(queue)

\* ------------------------------------------------------------------ C8
\* C8: the number of task callables executing at one instant never exceeds
\* max_workers; with max_workers = 1 at most one executes.
C8_ConcurrencyBounded == Cardinality(Executing) <= max_workers

C8_Witness ==
    /\ max_workers >= 2
    /\ Cardinality(Executing) = max_workers
    /\ Len(funcs) >= max_workers

\* ------------------------------------------------------------------ C9
\* C9: once keep_running is False no worker dequeues -- every successful
\* queue.get happens in a state where keep_running is still True (stated
\* for valid input, where every entry is a task of the caller).
C9_NoDequeueAfterStop ==
    [][(ValidInput /\ Len(queue') < Len(queue)) => keep_running]_vars

\* ------------------------------------------------------------------ C10
\* C10: exactly-once delivery -- a descriptor is dequeued at most once, is
\* held by at most one worker, is never back in the queue once removed,
\* and its callable is called at most once.
C10_ExactlyOnce ==
    \A t \in TaskIds :
        /\ deq[t] <= 1 /\ calls[t] <= 1 /\ calls[t] <= deq[t]
        /\ Cardinality({w \in Workers : wtask[w].id = t}) <= 1
        /\ deq[t] >= 1 => \A k \in 1..Len(queue) : queue[k].id # t

C10_Witness ==
    /\ \E w1, w2 \in Workers :
          w1 # w2 /\ wpc[w1] = "call" /\ wpc[w2] = "call"
    /\ \A t \in 1..ZipLen : deq[t] = 1

\* ------------------------------------------------------------------ C11
\* C11: when run_threads returns normally, every one of the supplied tasks
\* has been dequeued and called exactly once: none skipped, none run twice.
C11_ReturnedMeansAllRanOnce ==
    Returned =>
        /\ ValidInput
        /\ \A k \in 1..Len(funcs) : deq[k] = 1 /\ calls[k] = 1
        /\ queue = <<>>

C11_Witness ==
    /\ Returned
    /\ Len(funcs) >= 3
    /\ Len(args_list) >= 1
    /\ \A k \in 1..Len(funcs) : calls[k] = 1

\* ------------------------------------------------------------------ C12
\* C12: the supervisor never swallows a task failure -- for valid input, a
\* normal return of run_threads implies that no task callable raised.
C12_NoFailureSwallowed ==
    (Returned /\ ValidInput) => (failed = {} /\ firstFailure = None)

\* ------------------------------------------------------------------ C13
\* C13: padding rule -- when funcs is longer than args_list and/or
\* kwargs_list, task k runs funcs[k] with args_list[k] and kwargs_list[k]
\* where they exist and with empty positional and named arguments where
\* they do not; the padding makes no callable fail, and run_threads returns
\* normally, every task called, when the callables succeed.
Padded == Len(funcs) > Len(args_list) \/ Len(funcs) > Len(kwargs_list)

C13_PaddingRule ==
    (ValidInput /\ Padded) =>
        /\ \A w \in Workers : wtask[w].id # 0 =>
              LET d == wtask[w]  k == wtask[w].id IN
              /\ d.func = funcs[k]
              /\ IF k <= Len(args_list)
                 THEN d.args = args_list[k]
                 ELSE Unpacked(d.args) = "empty"
              /\ IF k <= Len(kwargs_list)
                 THEN d.kwargs = kwargs_list[k]
                 ELSE Unpacked(d.kwargs) = "empty"
              /\ funcs[k] = "ok" => CallResult(d) = None
        /\ (Finished /\ Failing = {}) =>
              (outcome = None /\ \A k \in 1..Len(funcs) : calls[k] = 1)

C13_Witness ==
    /\ ValidInput /\ Padded /\ Failing = {}
    /\ Len(funcs) = 3 /\ Len(args_list) = 1
    /\ Returned
    /\ calls[2] = 1 /\ calls[3] = 1

\* ------------------------------------------------------------------ C14
\* C14: tasks are dequeued in FIFO order -- whenever task b has been
\* dequeued, every task a < b was dequeued before it, whichever workers
\* took them, and what is left in the queue is in list order.  Nothing
\* orders their completions.
C14_FifoDequeue ==
    /\ \A a, b \in TaskIds : (a < b /\ deq[b] >= 1) => deq[a] >= 1
    /\ \A k \in 1..Len(queue) :
          /\ deq[queue[k].id] = 0
          /\ k < Len(queue) => queue[k].id < queue[k + 1].id

\* Task 2, dequeued after task 1, has completed while task 1 is still running.
C14_Witness ==
    /\ deq[1] = 1 /\ deq[2] = 1
    /\ calls[2] = 1 /\ calls[1] = 0
    /\ \E w \in Workers : wpc[w] = "call" /\ wtask[w].id = 1
    /\ \A w \in Workers : wtask[w].id # 2

\* ------------------------------------------------------------------ C15
\* C15: the failure holder self.exceptions contains at most one record in
\* every reachable state, also when several tasks fail concurrently.
C15_AtMostOneFailureHeld == Len(exceptions) <= 1

\* ------------------------------------------------------------------ C16
\* C16: the Stop Signal is monotonic -- keep_running starts True and, once
\* a worker or the supervisor has set it to False, no step of any worker or
\* of run_threads (a later call of run_threads included) sets it back.
C16_StopSignalMonotonic == [][~keep_running => ~keep_running']_vars

\* The flag is down, set by a failing worker, while another worker is still
\* running a task and run_threads has been called a second time.
C16_Witness ==
    /\ ~keep_running
    /\ runs = 2
    /\ failed # {}
    /\ \E w \in Workers : wpc[w] = "call"

\* ------------------------------------------------------------------ C17
\* C17: mutual exclusion of the lock registry -- two threads never execute
\* the body of the same wrapped function at the same time, also when both
\* make the first-ever call concurrently.
InBody(t) == lpc[t] = "body"

C17_LockerMutualExclusion ==
    \A t1, t2 \in Callers :
        (t1 # t2 /\ InBody(t1) /\ InBody(t2)) => lname[t1] # lname[t2]

\* ------------------------------------------------------------------ C18
\* C18: no state is shared across invocations -- every call of run_threads,
\* a second one on the same object after a failed run included, starts with
\* an empty task queue, nothing outstanding, an empty failure holder and
\* the Stop Signal not raised.
AtStartOfRun == spc = "enqueue" /\ i = 1

C18_FreshPerInvocation ==
    (AtStartOfRun /\ ValidInput) =>
        /\ queue = <<>> /\ unfinished_tasks = 0
        /\ exceptions = <<>>
        /\ keep_running

\* ------------------------------------------------------------------ C19
\* C19: termination -- under fair scheduling, with valid input and every
\* callable coming to an end, run_threads eventually returns or raises,
\* also after a failure that leaves never-dequeued tasks outstanding.
C19_RunThreadsTerminates == ValidInput => <>Finished

\* ------------------------------------------------------------------ C20
\* The places of _wrapped a worker passes through after its callable raised.
AfterFailure == {"stop", "record", "task_done", "check", "exited"}

C21_DequeuedIsCompletedOnce ==
    /\ [](\A t \in TaskIds : done[t] <= 1)
    /\ <>[](\A t \in TaskIds : done[t] = deq[t])

\* ------------------------------------------------------------------ C22
\* Thread w is running a task: it holds a dequeued entry not yet marked done.
RunningTask(w) == wpc[w] \in {"call", "stop", "record", "task_done"}

\* C22: shutdown timeout policy -- a join that times out on a worker still
\* running a task leaves that worker as it is and goes on to the next
\* thread, and after such a timeout run_threads ends by raising a failure
\* that a task raised, not a timeout error and nothing else.
C22_TimeoutProceeds ==
    [][/\ (spc = "join" /\ j <= Len(threads) /\ RunningTask(threads[j]))
            => (wvars' = wvars => (spc' = "join" /\ j' = j + 1 /\ timedOut'))
       /\ (spc = "join" /\ spc' = "done" /\ timedOut)
            => outcome' \in {FailureOf(k) : k \in 1..ZipLen} \ {None}
      ]_vars

\* ------------------------------------------------------------------ C23
\* C23: one lock per operation identity -- once LOCKS[name] holds a lock it
\* is never replaced by another lock object, first calls made concurrently
\* by several threads included.
C23_LockNeverReplaced ==
    [][\A n \in Names : LOCKS[n] # NoLock => LOCKS'[n] = LOCKS[n]]_vars

\* ------------------------------------------------------------------ C24
\* The enqueue loop put every triple of zip_longest on the queue.
Filled == spc # "enqueue" /\ ~HasText
\* Entries a worker took off the queue and has not marked done.
InFlight == {t \in TaskIds : deq[t] > done[t]}

Occurred == {t \in TaskIds : calls[t] >= 1 /\ FailureOf(t) # None}
\* Entries whose failure is in self.exceptions now.
HeldIds == {exceptions[k].task : k \in 1..Len(exceptions)}

\* C25: record-before-complete ordering -- an entry whose callable raised
\* is marked done only after keep_running was set to False and its failure
\* was put on self.exceptions; so whenever unfinished_tasks is zero, every
\* failure that occurred is still in self.exceptions or was taken by
\* run_threads, and no worker stands between a raise and its record.
C25_RecordBeforeComplete ==
    /\ \A t \in Occurred : done[t] >= 1 => (t \in recorded /\ ~keep_running)
    /\ taken \subseteq recorded
    /\ unfinished_tasks = 0 =>
          /\ \A t \in Occurred : t \in HeldIds \cup taken
          /\ \A w \in Workers : wpc[w] \notin {"stop", "record"}

C25_Witness ==
    /\ spc = "poll"
    /\ unfinished_tasks = 0
    /\ ZipLen >= 2
    /\ Occurred # {}
    /\ Occurred \subseteq HeldIds

====
